---- MODULE Spec2Model ----
(***************************************************************************)
(* A model of F_Functions.py: the metric functions sum_sq_error,           *)
(* r_squared and KL_div, the report builder calculate_errors and the       *)
(* report writer write_me_up.                                              *)
(*                                                                         *)
(* Numbers.  The arrays hold small non-negative integers.  A numpy scalar  *)
(* is a record [k, n, d]: k = "fin" is the rational n/d in lowest terms    *)
(* (d > 0), k = "inf" is +inf (n = 1) or -inf (n = -1), k = "nan" is nan,  *)
(* and k = "raise" stands for an exception leaving the function; an       *)
(* operation on a raised operand is never reached, so it yields "raise".   *)
(*                                                                         *)
(* On arrays this small the exact value and the float64 value print the    *)
(* same digits, so the rationals stand for the floats.  The logarithm of   *)
(* the KL divergence is read from a table of ln(n) in millionths.          *)
(*                                                                         *)
(* Text.  A string is a sequence of one-character strings.                 *)
(***************************************************************************)
EXTENDS Integers, Sequences, FiniteSets, TLC

VARIABLES op, args, res, data, fs, call, saved, th

vars == <<op, args, res, data, fs, call, saved, th>>

(* ------------------------------ bounds --------------------------------- *)

MaxLen == 3

MaxVal == 1

MaxConcLen == 2

MaxFlag == 2

MaxError == 1

(* Arrays of at least two elements: every length mismatch is then one that *)
(* numpy cannot broadcast.                                                 *)
SeqsOf(maxlen, maxval) == UNION {[1..n -> 0..maxval] : n \in 2..maxlen}

Seqs == SeqsOf(MaxLen, MaxVal)

ConcSeqs == SeqsOf(MaxConcLen, MaxVal)

Threads == {1, 2}

Names == {<<"m", "1">>, <<"m", "2">>}

Flags == 0..MaxFlag

Errors == 0..MaxError

(* ------------------------------ numbers -------------------------------- *)

Abs(x) == IF x < 0 THEN -x ELSE x

RECURSIVE GCD(_, _)
GCD(x, y) == IF y = 0 THEN x ELSE GCD(y, x % y)

Fin(n, d) ==
    IF d = 1 THEN [k |-> "fin", n |-> n, d |-> 1]
    ELSE LET g == GCD(Abs(n), d)
         IN  [k |-> "fin", n |-> n \div g, d |-> d \div g]

Num(n) == [k |-> "fin", n |-> n, d |-> 1]

Inf(s) == [k |-> "inf", n |-> s, d |-> 0]

NaN == [k |-> "nan", n |-> 0, d |-> 0]

Raise == [k |-> "raise", n |-> 0, d |-> 0]

Sign(n) == IF n < 0 THEN -1 ELSE IF n > 0 THEN 1 ELSE 0

FNeg(x) == [x EXCEPT !.n = -x.n]

FAdd(x, y) ==
    IF x.k = "raise" \/ y.k = "raise" THEN Raise
    ELSE IF x.k = "nan" \/ y.k = "nan" THEN NaN
    ELSE IF x.k = "inf" /\ y.k = "inf" THEN (IF x.n = y.n THEN x ELSE NaN)
    ELSE IF x.k = "inf" THEN x
    ELSE IF y.k = "inf" THEN y
    ELSE Fin(x.n * y.d + y.n * x.d, x.d * y.d)

FSub(x, y) == FAdd(x, FNeg(y))

FMul(x, y) ==
    IF x.k = "raise" \/ y.k = "raise" THEN Raise
    ELSE IF x.k = "nan" \/ y.k = "nan" THEN NaN
    ELSE IF x.k = "inf" \/ y.k = "inf"
         THEN (IF x.n = 0 \/ y.n = 0 THEN NaN ELSE Inf(Sign(x.n) * Sign(y.n)))
    ELSE Fin(x.n * y.n, x.d * y.d)

(* The quotient of two scalars, a zero divisor apart. *)
Quot(x, y) ==
    IF x.k = "raise" \/ y.k = "raise" THEN Raise
    ELSE IF x.k = "nan" \/ y.k = "nan" THEN NaN
    ELSE IF x.k = "inf" THEN (IF y.k = "inf" THEN NaN
                              ELSE Inf(IF y.n < 0 THEN -x.n ELSE x.n))
    ELSE IF y.k = "inf" THEN Num(0)
    ELSE Fin(x.n * y.d * Sign(y.n), x.d * Abs(y.n))

(* Division as Python's own float does it: a zero divisor raises           *)
(* ZeroDivisionError.                                                      *)
FDivRaise(x, y) ==
    IF y.k = "fin" /\ y.n = 0 THEN Raise ELSE Quot(x, y)

(* Division of numpy scalars: x / 0 is +-inf and 0 / 0 is nan, with a      *)
(* RuntimeWarning and no exception.                                        *)
FDiv(x, y) ==
    IF y.k = "fin" /\ y.n = 0
    THEN (IF x.k = "fin" /\ x.n # 0 THEN Inf(Sign(x.n))
          ELSE IF x.k = "inf" THEN x ELSE NaN)
    ELSE Quot(x, y)

RECURSIVE SumFrom(_, _)
SumFrom(s, i) == IF i > Len(s) THEN Num(0) ELSE FAdd(s[i], SumFrom(s, i + 1))

(* np.sum over an array of scalars *)
NpSum(s) == SumFrom(s, 1)

Arr(a) == [i \in 1..Len(a) |-> Num(a[i])]

Shapes(a, b) == Len(a) = Len(b) \/ Len(a) = 1 \/ Len(b) = 1

At(a, i) == IF Len(a) = 1 THEN a[1] ELSE a[i]

BLen(a, b) == IF Len(a) > Len(b) THEN Len(a) ELSE Len(b)

(* ------------------------------ metrics -------------------------------- *)

(* "ssq = np.sum(res)" *)
sum_sq_error_unsquared(a, b) ==
    IF ~Shapes(a, b) THEN Raise
    ELSE LET r == [i \in 1..BLen(a, b) |-> FSub(At(Arr(a), i), At(Arr(b), i))]
         IN  NpSum(r)

(* "ssq = np.sum(a**2 - b**2)" *)
sum_sq_error_diffsq(a, b) ==
    IF ~Shapes(a, b) THEN Raise
    ELSE NpSum([i \in 1..BLen(a, b) |->
                  FSub(FMul(At(Arr(a), i), At(Arr(a), i)),
                       FMul(At(Arr(b), i), At(Arr(b), i)))])

sum_sq_error(a, b) ==
    IF ~Shapes(a, b) THEN Raise
    ELSE LET r == [i \in 1..BLen(a, b) |-> FSub(At(Arr(a), i), At(Arr(b), i))]
         IN  NpSum([i \in 1..Len(r) |-> FMul(r[i], r[i])])

(* The textbook coefficient: the residuals a - b in place of b - ybar *)
r_squared_textbook(a, b) ==
    LET ybar  == FDiv(NpSum(Arr(a)), Num(Len(a)))
        ssres == sum_sq_error(a, b)
        sstot == NpSum([i \in 1..Len(a) |->
                          FMul(FSub(Num(a[i]), ybar), FSub(Num(a[i]), ybar))])
    IN  IF ssres.k = "raise" THEN ssres ELSE FSub(Num(1), FDiv(ssres, sstot))

r_squared(a, b) ==
    LET ybar  == FDiv(NpSum(Arr(a)), Num(Len(a)))
        ssreg == NpSum([i \in 1..Len(b) |->
                          FMul(FSub(Num(b[i]), ybar), FSub(Num(b[i]), ybar))])
        sstot == NpSum([i \in 1..Len(a) |->
                          FMul(FSub(Num(a[i]), ybar), FSub(Num(a[i]), ybar))])
    IN  FSub(Num(1), FDiv(ssreg, sstot))

(* ------------------------------- text ---------------------------------- *)

Digit(n) == <<"0", "1", "2", "3", "4", "5", "6", "7", "8", "9">>[n + 1]

RECURSIVE IntChars(_)
IntChars(n) == IF n < 10 THEN <<Digit(n)>>
               ELSE IntChars(n \div 10) \o <<Digit(n % 10)>>

RECURSIVE Pow10(_)
Pow10(p) == IF p = 0 THEN 1 ELSE 10 * Pow10(p - 1)

RECURSIVE FracChars(_, _)
FracChars(f, p) == IF p = 0 THEN <<>>
                   ELSE FracChars(f \div 10, p - 1) \o <<Digit(f % 10)>>

(* The nearest integer to m/d, a tie going to the even one. *)
Round(m, d) ==
    LET q == m \div d
        r == m % d
    IN  IF 2 * r > d \/ (2 * r = d /\ q % 2 = 1) THEN q + 1 ELSE q

(* '%1.<p>f' % x and '{:1.<p>f}'.format(x): fixed point with p decimals,   *)
(* rounded to nearest; inf and nan are spelled out.                        *)
Fmt(p, x) ==
    IF x.k = "nan" THEN <<"n", "a", "n">>
    ELSE IF x.k = "inf"
         THEN (IF x.n < 0 THEN <<"-">> ELSE <<>>) \o <<"i", "n", "f">>
    ELSE LET m == Round(Abs(x.n) * Pow10(p), x.d)
         IN  (IF x.n < 0 THEN <<"-">> ELSE <<>>)
             \o IntChars(m \div Pow10(p)) \o <<".">> \o FracChars(m % Pow10(p), p)

(* str() of a bool, of a non-negative int and of a str *)
StrBool(v) == IF v THEN <<"T", "r", "u", "e">> ELSE <<"F", "a", "l", "s", "e">>

StrInt(n) == IntChars(n)

Str(s) == s

(* ------------------------------ KL_div --------------------------------- *)

RECURSIVE Total(_, _)
Total(a, i) == IF i > Len(a) THEN 0 ELSE a[i] + Total(a, i + 1)

(* ln(n) in millionths, n = 1..16 *)
LnMicro == <<0, 693147, 1098612, 1386294, 1609438, 1791759, 1945910, 2079442,
             2197225, 2302585, 2397895, 2484907, 2564949, 2639057, 2708050,
             2772589>>

(* scipy.stats.entropy(pk, qk): both arrays are divided by their sums,     *)
(* then sum(rel_entr(pk, qk)), where rel_entr(x, y) is x*log(x/y) for      *)
(* x, y > 0, 0 for x = 0 <= y, and inf otherwise.  A zero sum makes the    *)
(* normalised array nan.  The sum is exactly 0 when pk/sum(pk) equals      *)
(* qk/sum(qk); otherwise it is kept to five decimals.  Arrays of different *)
(* lengths do not get here from calculate_errors: sum_sq_error has raised. *)
entropy(pk, qk) ==
    LET A == Total(pk, 1)
        B == Total(qk, 1)
        term(i) == IF pk[i] = 0 THEN Num(0)
                   ELSE Num(pk[i] * (LnMicro[pk[i]] - LnMicro[qk[i]]
                                     - LnMicro[A] + LnMicro[B]))
        micro == NpSum([i \in 1..Len(pk) |-> term(i)])
    IN  IF Len(pk) # Len(qk) THEN Raise
        ELSE IF A = 0 \/ B = 0 THEN NaN
        ELSE IF \E i \in 1..Len(pk) : pk[i] > 0 /\ qk[i] = 0 THEN Inf(1)
        ELSE IF \A i \in 1..Len(pk) : pk[i] * B = qk[i] * A THEN Num(0)
        ELSE Fin(Round(micro.n, A * 10), 100000)

KL_div(a, b) == entropy(a, b)

(* --------------------------- calculate_errors -------------------------- *)

Raised == [exc |-> TRUE, text |-> <<>>]

Returned(t) == [exc |-> FALSE, text |-> t]

(* "if booler == 1:" *)
TruthyIsOne(booler) == booler = 1

(* "if booler:" on an int *)
Truthy(booler) == booler # 0

calculate_errors(namer, booler, actual, sim) ==
    LET SSE == sum_sq_error(actual, sim)
        Rsq == r_squared(actual, sim)
        KLd == KL_div(actual, sim)
    IN  IF SSE.k = "raise" \/ Rsq.k = "raise" \/ KLd.k = "raise" THEN Raised
        ELSE IF Truthy(booler)
        THEN Returned(<<"R", "e", "s", "u", "l", "t", "s", " ", "f", "o", "r", " ">> \o Str(namer) \o <<":", " ", "\n">>
                      \o <<"U", "N", "F", "I", "T", " ", "S", "I", "M", "U", "L", "A", "T", "I", "O", "N", " ", "\n">>
                      \o <<" ", " ", " ", " ", " ", "S", "S", "E", " ", "=", " ">> \o Fmt(3, SSE) \o <<" ", "\n">>
                      \o <<" ", " ", " ", " ", " ", "R", "s", "q", " ", "=", " ">> \o Fmt(3, Rsq) \o <<" ", "\n">>
                      \o <<" ", " ", " ", " ", " ", "K", "L", "d", " ", "=", " ">> \o Fmt(3, KLd) \o <<" ", "\n", " ", "\n">>)
        ELSE Returned(<<"R", "e", "s", "u", "l", "t", "s", " ", "f", "o", "r", " ">> \o Str(namer) \o <<":", " ", "\n">>
                      \o <<"F", "I", "T", "T", "E", "D", " ", "S", "I", "M", "U", "L", "A", "T", "I", "O", "N", " ", "\n">>
                      \o <<" ", " ", " ", " ", " ", "S", "S", "E", " ", "=", " ">> \o Fmt(3, SSE) \o <<" ", "\n">>
                      \o <<" ", " ", " ", " ", " ", "R", "s", "q", " ", "=", " ">> \o Fmt(3, Rsq) \o <<" ", "\n">>
                      \o <<" ", " ", " ", " ", " ", "K", "L", "d", " ", "=", " ">> \o Fmt(3, KLd) \o <<" ", "\n", " ", "\n">>)


(* ------------------------------- files --------------------------------- *)

NoFile == [exists |-> FALSE, text |-> <<>>]

OldFile == [exists |-> TRUE, text |-> <<"o", "l", "d", "\n">>]

FileName(namer) == namer \o <<".", "t", "x", "t">>

FileNames == {FileName(n) : n \in Names}

(* open(file_name, "r+") on a file made beforehand: nothing is truncated *)
open_rplus(f, file_name) ==
    [f EXCEPT ![file_name] = [exists |-> TRUE, text |-> @.text]]

(* open(file_name, "w"): the file is created or truncated *)
open_w(f, file_name) ==
    [f EXCEPT ![file_name] = [exists |-> TRUE, text |-> <<>>]]

(* The file object: its path and the text written and not yet flushed.     *)
(* A report is far below the 8 KiB buffer, so write() only buffers.        *)
FileObject(file_name) == [name |-> file_name, buf |-> <<>>]

file_write(h, t) == [h EXCEPT !.buf = @ \o t]

(* The bytes of buf put at the end of the file *)
PWriteAtEnd(text, buf) == text \o buf

(* The bytes of buf put at offset 0 of the file, what lies behind them kept *)
PWrite(text, buf) == buf \o SubSeq(text, Len(buf) + 1, Len(text))

(* close() flushes the buffer in one write at the object's offset, 0 *)
file_close(f, h) ==
    [f EXCEPT ![h.name] = [exists |-> TRUE, text |-> PWrite(@.text, h.buf)]]

(* ----------------------------- write_me_up ----------------------------- *)

Line56(fitted) == <<"F", "i", "t", " ", "=", " ">> \o StrBool(fitted) \o <<"\n">>

Line57(error) == <<"E", "r", "r", "o", "r", " ", "=", " ">> \o StrInt(error) \o <<"\n">>

(* Lines 47-50: the two blocks and the two formatted errors, or an         *)
(* exception out of the first metric that fails.                           *)
Metrics(namer, actual, sim, fit) ==
    LET results1 == calculate_errors(namer, 1, actual, sim)
        before   == sum_sq_error(actual, sim)
        results2 == calculate_errors(namer, 0, actual, fit)
        after    == sum_sq_error(actual, fit)
    IN  IF results1.exc \/ before.k = "raise" \/ results2.exc \/ after.k = "raise"
        THEN [exc |-> TRUE, results1 |-> <<>>, results2 |-> <<>>,
              error_before |-> <<>>, error_after |-> <<>>]
        ELSE [exc |-> FALSE, results1 |-> results1.text, results2 |-> results2.text,
              error_before |-> Fmt(2, before), error_after |-> Fmt(2, after)]

(* Lines 52-58 *)
SaveReport(f, namer, m, fitted, error) ==
    LET file_name == FileName(namer)
        opened    == open_w(f, file_name)
        file1     == file_write(FileObject(file_name), m.results1)
        file2     == file_write(file1, m.results2)
        file3     == file_write(file2, Line56(fitted))
        file4     == file_write(file3, Line57(error))
    IN  file_close(opened, file4)

(* The flag that guards lines 52-58 *)
SaveAlways(save) == TRUE

SaveFlag(save) == save

(* The returned pair with its members exchanged *)
ReturnSwapped(m) == <<m.error_after, m.error_before>>

(* Line 59 *)
Return(m) == <<m.error_before, m.error_after>>

(* The file opened before the metrics are there *)
write_me_up_open_first(f, namer, m, fitted, error, save) ==
    IF m.exc
    THEN [exc |-> TRUE, ret |-> <<>>,
          fs |-> IF save THEN open_w(f, FileName(namer)) ELSE f]
    ELSE [exc |-> FALSE, ret |-> Return(m),
          fs |-> IF save THEN SaveReport(f, namer, m, fitted, error) ELSE f]

(* Lines 51-59 on the file system f, given the values m of lines 47-50:  *)
(* whether the call raised, what it returned and the file system it left. *)
write_me_up(f, namer, m, fitted, error, save) ==
    IF m.exc THEN [exc |-> TRUE, ret |-> <<>>, fs |-> f]
    ELSE [exc |-> FALSE, ret |-> Return(m),
          fs |-> IF SaveFlag(save) THEN SaveReport(f, namer, m, fitted, error)
                 ELSE f]

(* ------------------------- calls one after another --------------------- *)

NoArgs == [a |-> <<>>, b |-> <<>>, namer |-> <<>>, booler |-> 0]

NoData == [actual |-> <<>>, sim |-> <<>>, fit |-> <<>>]

NoCall == [done |-> FALSE, save |-> FALSE, exc |-> FALSE, ret |-> <<>>]

NoSave == [done |-> FALSE, fitted |-> FALSE, error |-> 0]

Init ==
    /\ op = "none"
    /\ args = NoArgs
    /\ res = Num(0)
    /\ data \in [actual : Seqs, sim : Seqs, fit : Seqs]
    /\ fs \in [FileNames -> {NoFile, OldFile}]
    /\ call = NoCall
    /\ saved = [f \in FileNames |-> NoSave]
    /\ th = <<>>

(* One call of write_me_up from start to return or raise; m is the value *)
(* of lines 47-50, which the name and the arrays decide.  call is the      *)
(* call just made; saved[f] remembers the arguments of the latest call     *)
(* that saved to f.                                                        *)
WriteMeUp(namer, m, fitted, error, save) ==
    \E r \in {write_me_up(fs, namer, m, fitted, error, save)} :
        /\ call' = [done |-> TRUE, save |-> save, exc |-> r.exc, ret |-> r.ret]
        /\ fs' = r.fs
        /\ saved' = IF save /\ ~r.exc
                    THEN [saved EXCEPT ![FileName(namer)] =
                            [done |-> TRUE, fitted |-> fitted, error |-> error]]
                    ELSE saved
        /\ UNCHANGED <<op, args, res, data, th>>

Next ==
    \E namer \in Names :
        \E m \in {Metrics(namer, data.actual, data.sim, data.fit)} :
            \E fitted \in BOOLEAN, error \in Errors, save \in BOOLEAN :
                WriteMeUp(namer, m, fitted, error, save)

Spec == Init /\ [][Next]_vars

(* --------------------------- two calls at once ------------------------- *)

(* A thread's locals *)
Idle == [pc |-> "idle", namer |-> <<>>, fitted |-> FALSE, error |-> 0,
         results1 |-> <<>>, results2 |-> <<>>, ret |-> <<>>,
         file |-> FileObject(<<>>)]

InitConc ==
    /\ op = "none"
    /\ args = NoArgs
    /\ res = Num(0)
    /\ data \in [actual : ConcSeqs, sim : ConcSeqs, fit : ConcSeqs]
    /\ fs = [f \in FileNames |-> NoFile]
    /\ call = NoCall
    /\ saved = [f \in FileNames |-> NoSave]
    /\ th = [t \in Threads |-> Idle]

(* Lines 47-51 of a call with save true *)
Start(t, namer, m, fitted, error) ==
    /\ th[t].pc = "idle"
    /\ th' = [th EXCEPT ![t] =
                IF m.exc THEN [@ EXCEPT !.pc = "raised", !.namer = namer,
                                        !.fitted = fitted, !.error = error]
                ELSE [@ EXCEPT !.pc = "open", !.namer = namer,
                               !.fitted = fitted, !.error = error,
                               !.results1 = m.results1, !.results2 = m.results2,
                               !.ret = Return(m)]]
    /\ UNCHANGED <<op, args, res, data, fs, call, saved>>

(* Lines 52-53 *)
OpenFile(t) ==
    /\ th[t].pc = "open"
    /\ fs' = open_w(fs, FileName(th[t].namer))
    /\ th' = [th EXCEPT ![t].pc = "write1",
                        ![t].file = FileObject(FileName(th[t].namer))]
    /\ UNCHANGED <<op, args, res, data, call, saved>>

(* Line 54 *)
Write1(t) ==
    /\ th[t].pc = "write1"
    /\ th' = [th EXCEPT ![t].pc = "write2",
                        ![t].file = file_write(@, th[t].results1)]
    /\ UNCHANGED <<op, args, res, data, fs, call, saved>>

(* Line 55 *)
Write2(t) ==
    /\ th[t].pc = "write2"
    /\ th' = [th EXCEPT ![t].pc = "write3",
                        ![t].file = file_write(@, th[t].results2)]
    /\ UNCHANGED <<op, args, res, data, fs, call, saved>>

(* Line 56 *)
Write3(t) ==
    /\ th[t].pc = "write3"
    /\ th' = [th EXCEPT ![t].pc = "write4",
                        ![t].file = file_write(@, Line56(th[t].fitted))]
    /\ UNCHANGED <<op, args, res, data, fs, call, saved>>

(* Line 57 *)
Write4(t) ==
    /\ th[t].pc = "write4"
    /\ th' = [th EXCEPT ![t].pc = "close",
                        ![t].file = file_write(@, Line57(th[t].error))]
    /\ UNCHANGED <<op, args, res, data, fs, call, saved>>

(* Lines 58-59 *)
CloseFile(t) ==
    /\ th[t].pc = "close"
    /\ fs' = file_close(fs, th[t].file)
    /\ th' = [th EXCEPT ![t].pc = "done"]
    /\ UNCHANGED <<op, args, res, data, call, saved>>

StartSome ==
    \E t \in Threads :
        /\ th[t].pc = "idle"
        /\ \E namer \in Names :
             \E m \in {Metrics(namer, data.actual, data.sim, data.fit)} :
                 \E fitted \in BOOLEAN, error \in Errors :
                     Start(t, namer, m, fitted, error)

NextConc ==
    \/ StartSome
    \/ \E t \in Threads : OpenFile(t)
    \/ \E t \in Threads : Write1(t)
    \/ \E t \in Threads : Write2(t)
    \/ \E t \in Threads : Write3(t)
    \/ \E t \in Threads : Write4(t)
    \/ \E t \in Threads : CloseFile(t)

SpecConc == InitConc /\ [][NextConc]_vars

(* --------------------- the functions applied to inputs ----------------- *)

InitPure ==
    /\ op = "none"
    /\ args \in [a : Seqs, b : Seqs, namer : Names, booler : Flags]
    /\ res = Num(0)
    /\ data = NoData
    /\ fs = [f \in FileNames |-> NoFile]
    /\ call = NoCall
    /\ saved = [f \in FileNames |-> NoSave]
    /\ th = <<>>

ApplySumSqError ==
    /\ op' = "sum_sq_error"
    /\ res' = sum_sq_error(args.a, args.b)
    /\ UNCHANGED <<args, data, fs, call, saved, th>>

ApplyRSquared ==
    /\ op' = "r_squared"
    /\ res' = r_squared(args.a, args.b)
    /\ UNCHANGED <<args, data, fs, call, saved, th>>

ApplyCalculateErrors ==
    /\ op' = "calculate_errors"
    /\ res' = calculate_errors(args.namer, args.booler, args.a, args.b)
    /\ UNCHANGED <<args, data, fs, call, saved, th>>

NextPure == ApplySumSqError \/ ApplyRSquared \/ ApplyCalculateErrors

SpecPure == InitPure /\ [][NextPure]_vars

(* ------------------------------- claims -------------------------------- *)

Constant(a) == \A i \in 1..Len(a) : a[i] = a[1]

RECURSIVE SqErr(_, _, _)
SqErr(a, b, i) == IF i > Len(a) THEN 0
                  ELSE (a[i] - b[i]) * (a[i] - b[i]) + SqErr(a, b, i + 1)

(* The lines of a text, each without the newline that ends it *)
RECURSIVE LinesFrom(_, _, _)
LinesFrom(t, i, cur) ==
    IF i > Len(t) THEN (IF cur = <<>> THEN <<>> ELSE <<cur>>)
    ELSE IF t[i] = "\n" THEN <<cur>> \o LinesFrom(t, i + 1, <<>>)
    ELSE LinesFrom(t, i + 1, Append(cur, t[i]))

Lines(t) == LinesFrom(t, 1, <<>>)

SameLen == Len(args.a) = Len(args.b)

(* C1: for arrays of equal length sum_sq_error(a, b) is a number that is   *)
(* not negative, and it is 0 exactly when a[i] = b[i] at every index.      *)
C1_NonNegativeZeroIffEqual ==
    (op = "sum_sq_error" /\ SameLen) =>
        /\ res.k = "fin"
        /\ res.d = 1
        /\ res.n >= 0
        /\ (res.n = 0) <=> (\A i \in 1..Len(args.a) : args.a[i] = args.b[i])

C1_Witness ==
    /\ op = "sum_sq_error"
    /\ SameLen
    /\ \E i \in 1..Len(args.a) : args.a[i] # args.b[i]
    /\ res.k = "fin" /\ res.n > 0

(* C2: sum_sq_error(a, b) equals sum_sq_error(b, a) for arrays of equal    *)
(* length.                                                                 *)
C2_Symmetric ==
    (op = "sum_sq_error" /\ SameLen) => res = sum_sq_error(args.b, args.a)

C2_Witness ==
    /\ op = "sum_sq_error"
    /\ SameLen
    /\ args.a[1] > args.b[1]
    /\ args.a[2] = args.b[2]
    /\ res = Num(SqErr(args.b, args.a, 1))
    /\ res.n > 0

(* C3: for an array a that is not constant, r_squared(a, a) is exactly 0.  *)
C3_RSquaredOfItselfIsZero ==
    (op = "r_squared" /\ args.b = args.a /\ ~Constant(args.a)) => res = Num(0)

C3_Witness ==
    /\ op = "r_squared"
    /\ args.b = args.a
    /\ ~Constant(args.a)
    /\ res = Num(0)

RsqLine(t) == Lines(t)[4]

(* C4 as stated: with a constant a, r_squared raises and returns nothing,  *)
(* and so does calculate_errors.                                           *)
C4_ConstantRaises ==
    Constant(args.a) =>
        /\ op = "r_squared" => res.k = "raise"
        /\ op = "calculate_errors" => res.exc

(* C4 amended: with a constant a, r_squared raises nothing and returns nan *)
(* when every b[i] equals the constant and -inf otherwise, and             *)
(* calculate_errors on arrays of equal length returns its block with that  *)
(* value in the Rsq line.                                                  *)
C4_ConstantGivesNanOrInf ==
    Constant(args.a) =>
        /\ op = "r_squared" =>
             res = IF \A i \in 1..Len(args.b) : args.b[i] = args.a[1]
                   THEN NaN ELSE Inf(-1)
        /\ (op = "calculate_errors" /\ SameLen) =>
             /\ ~res.exc
             /\ RsqLine(res.text) =
                  IF args.b = args.a THEN <<" ", " ", " ", " ", " ", "R", "s", "q", " ", "=", " ", "n", "a", "n", " ">>
                  ELSE <<" ", " ", " ", " ", " ", "R", "s", "q", " ", "=", " ", "-", "i", "n", "f", " ">>

C4_Witness ==
    /\ op = "calculate_errors"
    /\ Constant(args.a)
    /\ SameLen
    /\ args.b # args.a
    /\ ~res.exc
    /\ RsqLine(res.text) = <<" ", " ", " ", " ", " ", "R", "s", "q", " ", "=", " ", "-", "i", "n", "f", " ">>

(* C9: calculate_errors returns the header line, the status line (UNFIT    *)
(* for a truthy flag, FITTED otherwise), the SSE, Rsq and KLd lines and a  *)
(* blank line, in this order; with the other arguments the same, the texts *)
(* for two flags differ in the status line alone, and there only when one  *)
(* flag is truthy and the other is not.                                    *)
C9_BlockLayout ==
    (op = "calculate_errors" /\ ~res.exc) =>
        LET L == Lines(res.text)
        IN  /\ Len(L) = 6
            /\ res.text[Len(res.text)] = "\n"
            /\ L[1] = <<"R", "e", "s", "u", "l", "t", "s", " ", "f", "o", "r", " ">> \o args.namer \o <<":", " ">>
            /\ L[2] = IF args.booler # 0 THEN <<"U", "N", "F", "I", "T", " ", "S", "I", "M", "U", "L", "A", "T", "I", "O", "N", " ">>
                      ELSE <<"F", "I", "T", "T", "E", "D", " ", "S", "I", "M", "U", "L", "A", "T", "I", "O", "N", " ">>
            /\ L[3] = <<" ", " ", " ", " ", " ", "S", "S", "E", " ", "=", " ">> \o Fmt(3, sum_sq_error(args.a, args.b)) \o <<" ">>
            /\ L[4] = <<" ", " ", " ", " ", " ", "R", "s", "q", " ", "=", " ">> \o Fmt(3, r_squared(args.a, args.b)) \o <<" ">>
            /\ L[5] = <<" ", " ", " ", " ", " ", "K", "L", "d", " ", "=", " ">> \o Fmt(3, KL_div(args.a, args.b)) \o <<" ">>
            /\ L[6] = <<" ">>
            /\ \A flag \in Flags :
                 LET M == Lines(calculate_errors(args.namer, flag, args.a, args.b).text)
                 IN  /\ Len(M) = 6
                     /\ \A i \in {1, 3, 4, 5, 6} : M[i] = L[i]
                     /\ (M[2] = L[2]) <=> ((flag # 0) <=> (args.booler # 0))

C9_Witness ==
    /\ op = "calculate_errors"
    /\ ~res.exc
    /\ args.booler > 1
    /\ args.a # args.b
    /\ Lines(res.text)[2] = <<"U", "N", "F", "I", "T", " ", "S", "I", "M", "U", "L", "A", "T", "I", "O", "N", " ">>

(* C5: a completed call with save false creates no file and leaves every   *)
(* file as it was.                                                         *)
C5_NoSaveNoFileChange ==
    [][(call'.done /\ ~call'.exc /\ ~call'.save) => fs' = fs]_vars

C5_Witness ==
    /\ call.done /\ ~call.exc /\ ~call.save
    /\ \E f \in FileNames : fs[f].exists /\ saved[f].done
    /\ \E f \in FileNames : ~fs[f].exists

Report(namer, fitted, error) ==
    calculate_errors(namer, 1, data.actual, data.sim).text
    \o calculate_errors(namer, 0, data.actual, data.fit).text
    \o <<"F", "i", "t", " ", "=", " ">> \o StrBool(fitted) \o <<"\n">>
    \o <<"E", "r", "r", "o", "r", " ", "=", " ">> \o StrInt(error) \o <<"\n">>

(* C6: after any number of completed calls, a file that a call has saved   *)
(* to holds exactly the report of the latest call that saved to it: the    *)
(* UNFIT block of (actual, sim), the FITTED block of (actual, fit), the    *)
(* Fit line and the Error line.                                            *)
C6_FileHoldsLatestReport ==
    \A namer \in Names :
        saved[FileName(namer)].done =>
            /\ fs[FileName(namer)].exists
            /\ fs[FileName(namer)].text =
                 Report(namer, saved[FileName(namer)].fitted,
                        saved[FileName(namer)].error)

C6_Witness ==
    /\ \A f \in FileNames : saved[f].done /\ fs[f].exists
    /\ \E f, g \in FileNames :
          /\ saved[f].fitted /\ ~saved[g].fitted
          /\ saved[f].error # saved[g].error
          /\ Len(fs[f].text) < Len(fs[g].text)
    /\ call.done /\ call.save /\ ~call.exc

TwoDecimals(n) == IntChars(n) \o <<".", "0", "0">>

(* C7: a call that completes returns the pair (error_before, error_after), *)
(* the sum of squared errors of (actual, sim) and of (actual, fit) with    *)
(* two decimals, whatever save, name, fitted and error are.                *)
C7_ReturnsFormattedErrors ==
    (call.done /\ ~call.exc) =>
        call.ret = <<TwoDecimals(SqErr(data.actual, data.sim, 1)),
                     TwoDecimals(SqErr(data.actual, data.fit, 1))>>

C7_Witness ==
    /\ call.done /\ ~call.exc /\ ~call.save
    /\ data.fit = data.actual
    /\ call.ret = <<<<"3", ".", "0", "0">>, <<"0", ".", "0", "0">>>>

(* C10: a call whose metrics raise leaves every file as it was: it creates *)
(* none and truncates none, with save true as well.                        *)
C10_FailedCallTouchesNoFile ==
    [][call'.exc => fs' = fs]_vars

C10_Witness ==
    /\ call.done /\ call.exc /\ call.save
    /\ \A f \in FileNames : fs[f] = OldFile

ThreadReport(t) ==
    th[t].results1 \o th[t].results2 \o Line56(th[t].fitted) \o Line57(th[t].error)

BothDoneSameName ==
    /\ \A t \in Threads : th[t].pc = "done"
    /\ th[1].namer = th[2].namer

(* What lies behind the first n characters of a text *)
Behind(t, n) == SubSeq(t, n + 1, Len(t))

(* C8 as stated: once two concurrent saving calls with the same name have  *)
(* finished, the file holds exactly the report of one of them.             *)
C8_OneWholeReport ==
    BothDoneSameName =>
        \E t \in Threads : fs[FileName(th[1].namer)].text = ThreadReport(t)

(* C8 amended: once both calls have finished, the file starts with the     *)
(* whole report of one call; behind it there is either nothing or what of  *)
(* the other call's longer report lies beyond that length.                 *)
C8_OneReportThenTail ==
    BothDoneSameName =>
        \E t, u \in Threads :
            /\ t # u
            /\ \/ fs[FileName(th[1].namer)].text = ThreadReport(t)
               \/ fs[FileName(th[1].namer)].text =
                    ThreadReport(t) \o Behind(ThreadReport(u), Len(ThreadReport(t)))

C8_Witness ==
    /\ BothDoneSameName
    /\ Len(ThreadReport(1)) < Len(ThreadReport(2))
    /\ fs[FileName(th[1].namer)].text =
         ThreadReport(1) \o Behind(ThreadReport(2), Len(ThreadReport(1)))

====
